---- MODULE Spec2Model ----
(***************************************************************************)
(* A model of the MuyGPyS tensor core: the distance tensor builder and the *)
(* tensor-tuple assembly (MuyGPyS/_src/gp/distance/jax.py), the batched    *)
(* local solver and its fast-precompute variant                            *)
(* (MuyGPyS/_src/gp/muygps/jax.py) and the general Matern kernel           *)
(* (MuyGPyS/_src/gp/kernels/jax.py).                                       *)
(*                                                                         *)
(* Tensors are functions over 0-based index ranges, as in the source.      *)
(* Every library function is an operator; every call of the public         *)
(* surface is an action that draws its arguments, applies the operator and *)
(* records the call and what it returned (a value or a raised error).      *)
(***************************************************************************)
EXTENDS Integers, Sequences, FiniteSets, TLC

VARIABLES train_features, train_targets, test_features, K, Kcross,
          batch_nn_targets, coeffs_tensor, dists, call, ret

vars == <<train_features, train_targets, test_features, K, Kcross,
          batch_nn_targets, coeffs_tensor, dists, call, ret>>

(***************************************************************************)
(* Bounds of the model.                                                    *)
(***************************************************************************)
TrainCount == 3
TestCount == 3
FeatureCount == 2
ResponseCount == 2
NNCount == 3
BatchCount == 2
MaxCoord == 2
MaxTargetShift == 0
SqrtScale == 4
CorrDen == 2
MaxTarget == 1
MaxDist == 1
MaxNu == 2

MaxIndexCodes == 27
MaxLabel == 1
FnCount == 2
MaxDiff == 2
MaxArg == 2

Range0(n) == 0 .. (n - 1)

Metrics == {"l2", "F2", "cosine"}

(***************************************************************************)
(* Inputs.  A feature matrix has one row per training point; an index      *)
(* tensor has one row per batch element and every index in range.  Row 0   *)
(* of an enumerated index tensor is the row of digits, in base TrainCount, *)
(* of one of MaxIndexCodes codes spread over all rows of indices (every    *)
(* row when there are no more than MaxIndexCodes); the following rows are  *)
(* the rows of the following codes.                                        *)
(***************************************************************************)
FeatureMatrices ==
    { [p \in Range0(TrainCount) |->
          [f \in Range0(FeatureCount) |-> (a * p * (f + 1) + f) % (MaxCoord + 1)]] :
      a \in 0 .. MaxCoord }

TestMatrices ==
    { [q \in Range0(TestCount) |->
          [f \in Range0(FeatureCount) |-> (s + q + f) % (MaxCoord + 1)]] :
      s \in 0 .. 1 }

TargetMatrices ==
    { [p \in Range0(TrainCount) |->
          [k \in Range0(ResponseCount) |-> s + p * ResponseCount + k]] :
      s \in 0 .. MaxTargetShift }

RECURSIVE Power(_, _)
Power(base, n) == IF n = 0 THEN 1 ELSE base * Power(base, n - 1)

Digit(code, j) == (code \div Power(TrainCount, j)) % TrainCount

IndexCodes ==
    { (7 * c) % Power(TrainCount, NNCount) : c \in Range0(MaxIndexCodes) }

IndexTensors(rows) ==
    { [b \in Range0(rows) |->
          [j \in Range0(NNCount) |-> Digit(code + b, j)]] :
      code \in IndexCodes }

IndexVectors(rows, count) ==
    { [b \in Range0(rows) |-> (b + o) % count] : o \in 0 .. 1 }

(***************************************************************************)
(* What a call returns: a value, or the error it raised.                   *)
(***************************************************************************)
Ok(v) == [ok |-> TRUE, val |-> v]

Raise(kind, message) == [ok |-> FALSE, err |-> kind, msg |-> message]

Len0(t) == Cardinality(DOMAIN t)

(***************************************************************************)
(* A tensor with its entries computed (a function written as [x \in S |->  *)
(* e] is otherwise evaluated again at every use).                          *)
(***************************************************************************)
Materialize(t) == t @@ <<>>

(***************************************************************************)
(* The elements of a set of integers in ascending order, as a sequence     *)
(* (indexed from 1) and as a vector (indexed from 0).                      *)
(***************************************************************************)
RECURSIVE Ascending(_)
Ascending(S) ==
    IF S = {} THEN <<>>
    ELSE LET least == CHOOSE x \in S : \A y \in S : x <= y
         IN  <<least>> \o Ascending(S \ {least})

AscendingVector(S) ==
    LET order == Ascending(S)
    IN  Materialize([i \in Range0(Cardinality(S)) |-> order[i + 1]])

(***************************************************************************)
(* data[indices] for a 2-d index tensor and for a 1-d index vector.        *)
(***************************************************************************)
Gather2(data, indices) ==
    Materialize([b \in DOMAIN indices |->
                    Materialize([i \in DOMAIN indices[b] |-> data[indices[b][i]]])])

Gather1(data, indices) ==
    Materialize([b \in DOMAIN indices |-> data[indices[b]]])

(***************************************************************************)
(* Sum of a vector over its (0-based) axis.                                *)
(***************************************************************************)
RECURSIVE SumTo(_, _)
SumTo(v, n) == IF n = 0 THEN 0 ELSE SumTo(v, n - 1) + v[n - 1]

Sum(v) == SumTo(v, Len0(v))

(***************************************************************************)
(* jnp.sqrt on a non-negative integer, rounded down to a multiple of       *)
(* 1/SqrtScale: the pair <<r, SqrtScale>> stands for r / SqrtScale.        *)
(***************************************************************************)
SqrtNumerator(n) ==
    CHOOSE r \in 0 .. (n * SqrtScale + SqrtScale) :
        /\ r * r <= n * SqrtScale * SqrtScale
        /\ (r + 1) * (r + 1) > n * SqrtScale * SqrtScale

MaxSquare == FeatureCount * MaxCoord * MaxCoord

SqrtTable == Materialize([n \in 0 .. MaxSquare |-> SqrtNumerator(n)])

Sqrt(n) ==
    <<IF n \in DOMAIN SqrtTable THEN SqrtTable[n] ELSE SqrtNumerator(n), SqrtScale>>

(***************************************************************************)
(* The reductions over the feature axis, and the difference tensors.       *)
(***************************************************************************)
F2(diffs) == Sum([f \in DOMAIN diffs |-> diffs[f] * diffs[f]])

l2(diffs) == Sqrt(F2(diffs))

diffs_against_first(points) ==
    [b \in DOMAIN points |->
        [i \in DOMAIN points[b] |->
            [j \in DOMAIN points[b] |->
                [f \in DOMAIN points[b][i] |-> points[b][i][f] - points[b][0][f]]]]]

diffs(points) ==
    [b \in DOMAIN points |->
        [i \in DOMAIN points[b] |->
            [j \in DOMAIN points[b] |->
                [f \in DOMAIN points[b][i] |-> points[b][i][f] - points[b][j][f]]]]]

(***************************************************************************)
(* locations[:, None, :] - points broadcasts over the batch axis: an axis  *)
(* of length one is repeated to the length of the other, and two lengths   *)
(* that differ and are both above one are an error.                        *)
(***************************************************************************)
Broadcastable(m, n) == m = n \/ m = 1 \/ n = 1

BroadcastIndex(b, n) == IF n = 1 THEN 0 ELSE b

Max(m, n) == IF m < n THEN n ELSE m

BroadcastError(m, n) ==
    Raise("TypeError", <<"sub got incompatible shapes for broadcasting", m, n>>)

crosswise_diffs_by_neighbor(locations, points) ==
    [b \in DOMAIN points |->
        [i \in DOMAIN points[b] |->
            [f \in DOMAIN points[b][i] |->
                locations[i % Len0(locations)][f] - points[b][i][f]]]]

crosswise_diffs(locations, points) ==
    [b \in Range0(Max(Len0(locations), Len0(points))) |->
        LET row == points[BroadcastIndex(b, Len0(points))]
        IN  [i \in DOMAIN row |->
                [f \in DOMAIN row[i] |->
                    locations[BroadcastIndex(b, Len0(locations))][f] - row[i][f]]]]

Reduce3(d, metric) ==
    [b \in DOMAIN d |->
        [i \in DOMAIN d[b] |->
            [j \in DOMAIN d[b][i] |->
                IF metric = "l2" THEN l2(d[b][i][j]) ELSE F2(d[b][i][j])]]]

Reduce2(d, metric) ==
    [b \in DOMAIN d |->
        [i \in DOMAIN d[b] |->
            IF metric = "l2" THEN l2(d[b][i]) ELSE F2(d[b][i])]]

UnsupportedMetric(metric) ==
    Raise("ValueError", <<"Metric ", metric, " is not supported!">>)

pairwise_distances_default_l2(data, nn_indices, metric) ==
    LET points == Gather2(data, nn_indices)
    IN  IF metric = "F2" THEN Ok(Reduce3(diffs(points), "F2"))
        ELSE Ok(Reduce3(diffs(points), "l2"))

pairwise_distances(data, nn_indices, metric) ==
    LET points == Gather2(data, nn_indices)
    IN  IF metric = "l2" THEN Ok(Reduce3(diffs(points), "l2"))
        ELSE IF metric = "F2" THEN Ok(Reduce3(diffs(points), "F2"))
        ELSE UnsupportedMetric(metric)

crosswise_distances(data, nn_data, data_indices, nn_indices, metric) ==
    LET locations == Gather1(data, data_indices)
        points == Gather2(nn_data, nn_indices)
    IN  IF metric \notin {"l2", "F2"} THEN UnsupportedMetric(metric)
        ELSE IF ~ Broadcastable(Len0(locations), Len0(points))
        THEN BroadcastError(Len0(locations), Len0(points))
        ELSE IF metric = "l2"
        THEN Ok(Reduce2(crosswise_diffs(locations, points), "l2"))
        ELSE Ok(Reduce2(crosswise_diffs(locations, points), "F2"))

(***************************************************************************)
(* jnp.arange(0, n) as a column, and concatenation along axis 1; the       *)
(* concatenation fails when the row counts differ.                         *)
(***************************************************************************)
ArangeColumn(n) == [t \in Range0(n) |-> [j \in Range0(1) |-> t]]

DropLast(nn_indices) ==
    [t \in DOMAIN nn_indices |->
        [j \in Range0(Len0(nn_indices[t]) - 1) |-> nn_indices[t][j]]]

Concatenate1(A, B) ==
    [t \in DOMAIN A |->
        [j \in Range0(Len0(A[t]) + Len0(B[t])) |->
            IF j < Len0(A[t]) THEN A[t][j] ELSE B[t][j - Len0(A[t])]]]

DropFirst(nn_indices) ==
    [t \in DOMAIN nn_indices |->
        [j \in Range0(Len0(nn_indices[t]) - 1) |-> nn_indices[t][j + 1]]]

fast_nn_update_one_based(nn_indices) ==
    LET train_count == Len0(nn_indices)
    IN  Concatenate1([t \in Range0(train_count) |-> [j \in Range0(1) |-> t + 1]],
                     DropLast(nn_indices))

fast_nn_update_drop_first(nn_indices) ==
    LET train_count == Len0(nn_indices)
    IN  Concatenate1(ArangeColumn(train_count), DropFirst(nn_indices))

fast_nn_update(nn_indices) ==
    LET train_count == Len0(nn_indices)
    IN  Concatenate1(ArangeColumn(train_count), DropLast(nn_indices))

(***************************************************************************)
(* The result carries, next to the two tensors the function returns, the   *)
(* augmented index tensor it built them with (its local                    *)
(* batch_nn_indices_fast).                                                 *)
(***************************************************************************)
make_fast_regress_tensors_no_self(metric, batch_nn_indices, features, targets) ==
    LET pairwise_dists_fast ==
            pairwise_distances(features, batch_nn_indices, metric)
    IN  IF Len0(batch_nn_indices) # Len0(features)
        THEN Raise("TypeError", <<"concatenate">>)
        ELSE IF ~ pairwise_dists_fast.ok THEN pairwise_dists_fast
        ELSE Ok([indices |-> batch_nn_indices,
                 pairwise_dists |-> pairwise_dists_fast.val,
                 batch_nn_targets |-> Gather2(targets, batch_nn_indices)])

make_fast_regress_tensors(metric, batch_nn_indices, features, targets) ==
    LET num_train == Len0(features)
    IN  IF Len0(batch_nn_indices) # num_train
        THEN Raise("TypeError", <<"concatenate", num_train, Len0(batch_nn_indices)>>)
        ELSE LET batch_nn_indices_fast ==
                     Concatenate1(ArangeColumn(num_train), DropLast(batch_nn_indices))
                 pairwise_dists_fast ==
                     pairwise_distances(features, batch_nn_indices_fast, metric)
             IN  IF ~ pairwise_dists_fast.ok THEN pairwise_dists_fast
                 ELSE Ok([indices |-> batch_nn_indices_fast,
                          pairwise_dists |-> pairwise_dists_fast.val,
                          batch_nn_targets |-> Gather2(targets, batch_nn_indices_fast)])

(***************************************************************************)
(* The regression and training assemblies.  The test features are an       *)
(* optional argument: None, or Some(features).                             *)
(***************************************************************************)
None == [is_none |-> TRUE]

Some(t) == [is_none |-> FALSE, value |-> t]

SortedRow(row) ==
    [i \in DOMAIN row |->
        CHOOSE v \in { row[j] : j \in DOMAIN row } :
            /\ Cardinality({ j \in DOMAIN row : row[j] < v }) <= i
            /\ i < Cardinality({ j \in DOMAIN row : row[j] <= v })]

make_regress_tensors_sorted_targets(metric, batch_indices, batch_nn_indices, test, features, targets) ==
    LET test_features_used == IF test.is_none THEN features ELSE test.value
        crosswise_dists ==
            crosswise_distances(test_features_used, features, batch_indices,
                                batch_nn_indices, metric)
        pairwise_dists == pairwise_distances(features, batch_nn_indices, metric)
    IN  IF ~ crosswise_dists.ok THEN crosswise_dists
        ELSE IF ~ pairwise_dists.ok THEN pairwise_dists
        ELSE Ok([crosswise_dists |-> crosswise_dists.val,
                 pairwise_dists |-> pairwise_dists.val,
                 batch_nn_targets |->
                     Gather2(targets, [b \in DOMAIN batch_nn_indices |->
                                          SortedRow(batch_nn_indices[b])])])

make_regress_tensors(metric, batch_indices, batch_nn_indices, test, features, targets) ==
    LET test_features_used == IF test.is_none THEN features ELSE test.value
        crosswise_dists ==
            crosswise_distances(test_features_used, features, batch_indices,
                                batch_nn_indices, metric)
        pairwise_dists == pairwise_distances(features, batch_nn_indices, metric)
    IN  IF ~ crosswise_dists.ok THEN crosswise_dists
        ELSE IF ~ pairwise_dists.ok THEN pairwise_dists
        ELSE Ok([crosswise_dists |-> crosswise_dists.val,
                 pairwise_dists |-> pairwise_dists.val,
                 batch_nn_targets |-> Gather2(targets, batch_nn_indices)])

make_train_tensors_test_features(metric, batch_indices, batch_nn_indices, features, targets) ==
    LET regress == make_regress_tensors(metric, batch_indices, batch_nn_indices,
                                        Some(test_features), features, targets)
    IN  IF ~ regress.ok THEN regress
        ELSE Ok([crosswise_dists |-> regress.val.crosswise_dists,
                 pairwise_dists |-> regress.val.pairwise_dists,
                 batch_targets |-> Gather1(targets, batch_indices),
                 batch_nn_targets |-> regress.val.batch_nn_targets])

make_train_tensors(metric, batch_indices, batch_nn_indices, features, targets) ==
    LET regress == make_regress_tensors(metric, batch_indices, batch_nn_indices,
                                        Some(features), features, targets)
    IN  IF ~ regress.ok THEN regress
        ELSE Ok([crosswise_dists |-> regress.val.crosswise_dists,
                 pairwise_dists |-> regress.val.pairwise_dists,
                 batch_targets |-> Gather1(targets, batch_indices),
                 batch_nn_targets |-> regress.val.batch_nn_targets])

(***************************************************************************)
(* The distance builder and the assemblies as operations.                  *)
(***************************************************************************)
NoTensor == <<>>

InitDist ==
    /\ train_features \in FeatureMatrices
    /\ train_targets \in TargetMatrices
    /\ test_features \in TestMatrices
    /\ K = NoTensor
    /\ Kcross = NoTensor
    /\ batch_nn_targets = NoTensor
    /\ coeffs_tensor = NoTensor
    /\ dists = NoTensor
    /\ call = [op |-> "none"]
    /\ ret = Ok(NoTensor)

InputsUnchanged == UNCHANGED <<train_features, train_targets, test_features,
                               K, Kcross, batch_nn_targets, dists>>

DataUnchanged == InputsUnchanged /\ UNCHANGED coeffs_tensor

(***************************************************************************)
(* A call is made when no call is pending; Return hands the result to the  *)
(* caller, after which the next call can be made.                          *)
(***************************************************************************)
Idle == call.op = "none"

Return ==
    /\ ~ Idle
    /\ call' = [op |-> "none"]
    /\ ret' = Ok(NoTensor)
    /\ DataUnchanged

PairwiseDistances ==
    /\ Idle
    /\ \E nn_indices \in IndexTensors(BatchCount), metric \in Metrics :
           /\ call' = [op |-> "pairwise_distances", nn_indices |-> nn_indices,
                       metric |-> metric]
           /\ ret' = pairwise_distances(train_features, nn_indices, metric)
           /\ DataUnchanged

CrosswiseDistances ==
    /\ Idle
    /\ \E rows \in 1 .. (BatchCount + 1), metric \in Metrics :
         \E data_indices \in IndexVectors(rows, TestCount),
            nn_indices \in IndexTensors(BatchCount) :
           /\ call' = [op |-> "crosswise_distances", data_indices |-> data_indices,
                       nn_indices |-> nn_indices, metric |-> metric]
           /\ ret' = crosswise_distances(test_features, train_features,
                                         data_indices, nn_indices, metric)
           /\ DataUnchanged

FastNNUpdate ==
    /\ Idle
    /\ \E rows \in 1 .. TrainCount :
         \E nn_indices \in IndexTensors(rows) :
           /\ call' = [op |-> "fast_nn_update", nn_indices |-> nn_indices]
           /\ ret' = Ok(fast_nn_update(nn_indices))
           /\ DataUnchanged

MakeFastRegressTensors ==
    /\ Idle
    /\ \E rows \in 1 .. TrainCount, metric \in Metrics :
         \E nn_indices \in IndexTensors(rows) :
           /\ call' = [op |-> "make_fast_regress_tensors", nn_indices |-> nn_indices,
                       metric |-> metric]
           /\ ret' = make_fast_regress_tensors(metric, nn_indices, train_features,
                                               train_targets)
           /\ DataUnchanged

MakeRegressTensors ==
    /\ Idle
    /\ \E metric \in Metrics, without_test \in BOOLEAN :
         \E batch_indices \in IndexVectors(BatchCount,
                                           IF without_test THEN TrainCount
                                           ELSE TestCount),
            nn_indices \in IndexTensors(BatchCount) :
           /\ call' = [op |-> "make_regress_tensors", metric |-> metric,
                       batch_indices |-> batch_indices, nn_indices |-> nn_indices,
                       test |-> IF without_test THEN None ELSE Some(test_features)]
           /\ ret' = make_regress_tensors(metric, batch_indices, nn_indices,
                                          call'.test, train_features, train_targets)
           /\ DataUnchanged

MakeTrainTensors ==
    /\ Idle
    /\ \E metric \in Metrics :
         \E batch_indices \in IndexVectors(BatchCount, TrainCount),
            nn_indices \in IndexTensors(BatchCount) :
           /\ call' = [op |-> "make_train_tensors", metric |-> metric,
                       batch_indices |-> batch_indices, nn_indices |-> nn_indices]
           /\ ret' = make_train_tensors(metric, batch_indices, nn_indices,
                                        train_features, train_targets)
           /\ DataUnchanged

NextDist ==
    \/ PairwiseDistances
    \/ CrosswiseDistances
    \/ FastNNUpdate
    \/ MakeFastRegressTensors
    \/ MakeRegressTensors
    \/ MakeTrainTensors
    \/ Return

SpecDist == InitDist /\ [][NextDist]_vars

(***************************************************************************)
(* Numbers of the solver: the pair <<n, d>> with d > 0 in lowest terms is  *)
(* the finite value n / d; <<1, 0>> and <<-1, 0>> are the infinities and   *)
(* <<0, 0>> is NaN, which is what a division by zero produces.             *)
(***************************************************************************)
RECURSIVE GCD(_, _)
GCD(a, b) == IF b = 0 THEN a ELSE GCD(b, a % b)

Abs(n) == IF n < 0 THEN -n ELSE n

Sign(n) == IF n < 0 THEN -1 ELSE IF n > 0 THEN 1 ELSE 0

Rat(n, d) ==
    IF d = 0 THEN <<Sign(n), 0>>
    ELSE LET g == GCD(Abs(n), Abs(d))
         IN  <<(Sign(d) * n) \div g, Abs(d) \div g>>

Zero == <<0, 1>>

One == <<1, 1>>

NaN == <<0, 0>>

IsFinite(x) == x[2] # 0

RMul(x, y) == Rat(x[1] * y[1], x[2] * y[2])

RAdd(x, y) ==
    IF x[2] = 0 /\ y[2] = 0
    THEN (IF x = y THEN x ELSE NaN)
    ELSE Rat(x[1] * y[2] + y[1] * x[2], x[2] * y[2])

RNeg(x) == <<-x[1], x[2]>>

RSub(x, y) == RAdd(x, RNeg(y))

RDiv(x, y) == Rat(x[1] * y[2], x[2] * y[1])

RAbs(x) == <<Abs(x[1]), x[2]>>

RLess(x, y) == x[1] * y[2] < y[1] * x[2]

RLeq(x, y) == x[1] * y[2] <= y[1] * x[2]

RECURSIVE RSumTo(_, _)
RSumTo(v, n) == IF n = 0 THEN Zero ELSE RAdd(RSumTo(v, n - 1), v[n - 1])

RSum(v) == RSumTo(v, Len0(v))

(***************************************************************************)
(* jnp.linalg.solve for one batch element: LU elimination with partial     *)
(* pivoting on the system A x = c, then back substitution.  A zero pivot   *)
(* leaves its column alone and the back substitution divides by it.        *)
(***************************************************************************)
RECURSIVE PivotRow(_, _, _, _)
PivotRow(A, k, i, best) ==
    IF i = Len0(A) THEN best
    ELSE PivotRow(A, k, i + 1,
                  IF RLess(RAbs(A[best][k]), RAbs(A[i][k])) THEN i ELSE best)

SwapRows(A, k, p) ==
    Materialize([i \in DOMAIN A |->
                    IF i = k THEN A[p] ELSE IF i = p THEN A[k] ELSE A[i]])

EliminateColumn(A, k) ==
    Materialize(
        [i \in DOMAIN A |->
            IF i <= k \/ A[k][k] = Zero THEN A[i]
            ELSE LET factor == RDiv(A[i][k], A[k][k])
                 IN  Materialize([j \in DOMAIN A[i] |->
                                     RSub(A[i][j], RMul(factor, A[k][j]))])])

RECURSIVE Eliminate(_, _)
Eliminate(A, k) ==
    IF k = Len0(A) THEN A
    ELSE Eliminate(EliminateColumn(SwapRows(A, k, PivotRow(A, k, k, k)), k),
                   k + 1)

RECURSIVE BackSubstitute(_, _, _)
BackSubstitute(U, i, x) ==
    IF i < 0 THEN x
    ELSE LET n == Len0(U)
             rest == RSum([j \in Range0(n - 1 - i) |->
                              RMul(U[i][i + 1 + j], x[i + 1 + j])])
             xi == RDiv(RSub(U[i][n], rest), U[i][i])
         IN  BackSubstitute(U, i - 1,
                            Materialize([j \in Range0(n) |->
                                            IF j = i THEN xi ELSE x[j]]))

SolveVector(A, c) ==
    LET n == Len0(A)
        augmented ==
            Materialize([i \in Range0(n) |->
                            Materialize([j \in Range0(n + 1) |->
                                            IF j = n THEN c[i] ELSE A[i][j]])])
    IN  BackSubstitute(Eliminate(augmented, 0), n - 1,
                       [j \in Range0(n) |-> Zero])

linalg_solve(A, T) ==
    Materialize(
        [b \in DOMAIN A |->
            LET columns ==
                    Materialize([k \in DOMAIN T[b][0] |->
                                    SolveVector(A[b], Materialize(
                                        [j \in DOMAIN T[b] |-> T[b][j][k]]))])
            IN  Materialize([j \in DOMAIN T[b] |->
                                Materialize([k \in DOMAIN T[b][0] |->
                                                columns[k][j]])])])

(***************************************************************************)
(* The batched local solver and the fast-regression pair.                  *)
(***************************************************************************)
BatchedMatMul(X, Y) ==
    [b \in DOMAIN X |->
        [i \in DOMAIN X[b] |->
            [k \in DOMAIN Y[b][0] |->
                RSum([j \in DOMAIN X[b][i] |-> RMul(X[b][i][j], Y[b][j][k])])]]]

muygps_compute_solve_first_element(Kin, Kcrossin, targets) ==
    LET batch_count == Len0(targets)
        nn_count == Len0(targets[0])
        response_count == Len0(targets[0][0])
        rows == [b \in Range0(batch_count) |->
                    [i \in Range0(1) |->
                        [j \in Range0(nn_count) |-> Kcrossin[b][j]]]]
        solved == linalg_solve([b \in DOMAIN Kin |-> Kin[0]], targets)
        responses == BatchedMatMul(rows, solved)
    IN  Ok(Materialize([b \in Range0(batch_count) |->
                           Materialize([k \in Range0(response_count) |->
                                           responses[b][0][k]])]))

muygps_compute_solve(Kin, Kcrossin, targets) ==
    LET batch_count == Len0(targets)
        nn_count == Len0(targets[0])
        response_count == Len0(targets[0][0])
        rows == [b \in Range0(batch_count) |->
                    [i \in Range0(1) |->
                        [j \in Range0(nn_count) |-> Kcrossin[b][j]]]]
        responses == BatchedMatMul(rows, linalg_solve(Kin, targets))
    IN  Ok(Materialize([b \in Range0(batch_count) |->
                           Materialize([k \in Range0(response_count) |->
                                           responses[b][0][k]])]))

muygps_compute_diagonal_variance_no_solve(Kin, Kcrossin) ==
    Ok([b \in DOMAIN Kcrossin |->
           RSub(One, RSum([j \in DOMAIN Kcrossin[b] |->
                              RMul(Kcrossin[b][j], Kcrossin[b][j])]))])

muygps_compute_diagonal_variance(Kin, Kcrossin) ==
    LET batch_count == Len0(Kcrossin)
        nn_count == Len0(Kcrossin[0])
        column == [b \in Range0(batch_count) |->
                      [j \in Range0(nn_count) |->
                          [k \in Range0(1) |-> Kcrossin[b][j]]]]
        solved == linalg_solve(Kin, column)
    IN  Ok([b \in Range0(batch_count) |->
               RSub(One, RSum([j \in Range0(nn_count) |->
                                  RMul(Kcrossin[b][j], solved[b][j][0])]))])

muygps_fast_regress_solve_first_coeffs(Kcrossin, coeffs) ==
    Ok([i \in DOMAIN Kcrossin |->
           [k \in DOMAIN coeffs[i][0] |->
               RSum([j \in DOMAIN Kcrossin[i] |->
                        RMul(Kcrossin[i][j], coeffs[0][j][k])])]])

muygps_fast_regress_solve(Kcrossin, coeffs) ==
    Ok([i \in DOMAIN Kcrossin |->
           [k \in DOMAIN coeffs[i][0] |->
               RSum([j \in DOMAIN Kcrossin[i] |->
                        RMul(Kcrossin[i][j], coeffs[i][j][k])])]])

(***************************************************************************)
(* The multi-model fast solve: einsum("ijk,ijk->ik"), with one             *)
(* cross-covariance vector per batch element and per output dimension.     *)
(***************************************************************************)
mmuygps_fast_regress_solve_shared_kernel(Kcrossin, coeffs) ==
    Ok(Materialize([i \in DOMAIN Kcrossin |->
           Materialize([k \in DOMAIN coeffs[i][0] |->
               RSum([j \in DOMAIN Kcrossin[i] |->
                        RMul(Kcrossin[i][j][0], coeffs[i][j][k])])])]))

mmuygps_fast_regress_solve(Kcrossin, coeffs) ==
    Ok(Materialize([i \in DOMAIN Kcrossin |->
           Materialize([k \in DOMAIN coeffs[i][0] |->
               RSum([j \in DOMAIN Kcrossin[i] |->
                        RMul(Kcrossin[i][j][k], coeffs[i][j][k])])])]))

muygps_fast_regress_precompute_transposed(Kin, train_nn_targets_fast) ==
    Ok(linalg_solve([b \in DOMAIN Kin |->
                        [i \in DOMAIN Kin[b] |->
                            [j \in DOMAIN Kin[b] |-> Kin[b][j][i]]]],
                    train_nn_targets_fast))

muygps_fast_regress_precompute(Kin, train_nn_targets_fast) ==
    Ok(linalg_solve(Kin, train_nn_targets_fast))

(***************************************************************************)
(* Inputs of the solver: covariance tensors with a constant diagonal (0 or *)
(* 1) and constant upper and lower parts (equal or not), cross-covariances *)
(* and targets that are affine in their indices.  Covariances are          *)
(* multiples of 1 / CorrDen in [0, 1]; the batch elements may differ.      *)
(***************************************************************************)
Corr(n) == Rat(n % (CorrDen + 1), CorrDen)

CovarianceTensors ==
    { [b \in Range0(BatchCount) |->
          [i \in Range0(NNCount) |->
              [j \in Range0(NNCount) |->
                  IF i = j THEN Rat(d, 1)
                  ELSE IF i < j THEN Corr(u + b * e) ELSE Corr(u + l + b * e)]]] :
      d \in 0 .. 1, u \in 0 .. CorrDen, l \in 0 .. 1, e \in 0 .. 1 }

CrossCovariances ==
    { [b \in Range0(BatchCount) |->
          [j \in Range0(NNCount) |-> Corr(x + j * y + b * z)]] :
      x \in 0 .. CorrDen, y \in 0 .. 1, z \in 0 .. 1 }

NeighborTargets ==
    { [b \in Range0(BatchCount) |->
          [j \in Range0(NNCount) |->
              [k \in Range0(ResponseCount) |-> Rat(s + b + 2 * j + k, 1)]]] :
      s \in 0 .. MaxTarget }

MultiCrossCovariances ==
    { [b \in Range0(BatchCount) |->
          [j \in Range0(NNCount) |->
              [k \in Range0(ResponseCount) |-> Corr(x + j + b * z + k * w)]]] :
      x \in 0 .. 1, z \in 0 .. 1, w \in 0 .. 1 }

InitSolve ==
    /\ train_features = NoTensor
    /\ train_targets = NoTensor
    /\ test_features = NoTensor
    /\ K \in CovarianceTensors
    /\ Kcross \in CrossCovariances
    /\ batch_nn_targets \in NeighborTargets
    /\ coeffs_tensor = NoTensor
    /\ dists = NoTensor
    /\ call = [op |-> "none"]
    /\ ret = Ok(NoTensor)

Solve ==
    /\ Idle
    /\ call' = [op |-> "solve"]
    /\ ret' = muygps_compute_solve(K, Kcross, batch_nn_targets)
    /\ DataUnchanged

DiagonalVariance ==
    /\ Idle
    /\ call' = [op |-> "diagonal_variance"]
    /\ ret' = muygps_compute_diagonal_variance(K, Kcross)
    /\ DataUnchanged

(***************************************************************************)
(* The caller keeps the coefficient tensor the precompute returned and     *)
(* hands it to the fast solve.                                             *)
(***************************************************************************)
FastRegressPrecompute ==
    /\ Idle
    /\ coeffs_tensor = NoTensor
    /\ call' = [op |-> "fast_regress_precompute"]
    /\ ret' = muygps_fast_regress_precompute(K, batch_nn_targets)
    /\ coeffs_tensor' = ret'.val
    /\ InputsUnchanged

FastRegressSolve ==
    /\ Idle
    /\ coeffs_tensor # NoTensor
    /\ call' = [op |-> "fast_regress_solve"]
    /\ ret' = muygps_fast_regress_solve(Kcross, coeffs_tensor)
    /\ DataUnchanged

MultiFastRegressSolve ==
    /\ Idle
    /\ coeffs_tensor # NoTensor
    /\ \E Kcross_multi \in MultiCrossCovariances :
           /\ call' = [op |-> "mmuygps_fast_regress_solve", Kcross |-> Kcross_multi]
           /\ ret' = mmuygps_fast_regress_solve(Kcross_multi, coeffs_tensor)
           /\ DataUnchanged

NextSolve ==
    \/ Solve
    \/ DiagonalVariance
    \/ FastRegressPrecompute
    \/ FastRegressSolve
    \/ MultiFastRegressSolve
    \/ Return

SpecSolve == InitSolve /\ [][NextSolve]_vars

(***************************************************************************)
(* The general Matern kernel.  A distance tensor is a record of its rank   *)
(* and its entries.  The smoothness nu is a positive integer, so that      *)
(* 2^(1 - nu) / Gamma(nu) is the rational 1 / (2^(nu - 1) (nu - 1)!);      *)
(* sqrt(2 nu) is rounded as Sqrt rounds.  bessel_kve(nu, tmp) /            *)
(* exp(|tmp|) is a special function the model does not compute: the call   *)
(* draws its value at every entry value, NaN and infinity included.        *)
(***************************************************************************)
RECURSIVE RPow(_, _)
RPow(x, n) == IF n = 0 THEN One ELSE RMul(x, RPow(x, n - 1))

RECURSIVE Factorial(_)
Factorial(n) == IF n = 0 THEN 1 ELSE n * Factorial(n - 1)

RECURSIVE Pow2(_)
Pow2(n) == IF n = 0 THEN 1 ELSE 2 * Pow2(n - 1)

SqrtRat(n) == Rat(Sqrt(n)[1], Sqrt(n)[2])

MapTensor(F, rank, t) ==
    IF rank = 1 THEN [i \in DOMAIN t |-> F[t[i]]]
    ELSE IF rank = 2 THEN [b \in DOMAIN t |-> [i \in DOMAIN t[b] |-> F[t[b][i]]]]
    ELSE [b \in DOMAIN t |->
             [i \in DOMAIN t[b] |-> [j \in DOMAIN t[b][i] |-> F[t[b][i][j]]]]]

DistValues == { Rat(v, 1) : v \in 0 .. MaxDist }

EntryValues == DistValues \cup {One}

Scaled(nu) == [x \in EntryValues |-> RMul(SqrtRat(2 * nu), x)]

Powers(nu) ==
    [x \in { Scaled(nu)[y] : y \in EntryValues } |-> RPow(x, nu)]

Multiply(rank, A, B) ==
    IF rank = 1 THEN [i \in DOMAIN A |-> RMul(A[i], B[i])]
    ELSE IF rank = 2
    THEN [b \in DOMAIN A |-> [i \in DOMAIN A[b] |-> RMul(A[b][i], B[b][i])]]
    ELSE [b \in DOMAIN A |->
             [i \in DOMAIN A[b] |->
                 [j \in DOMAIN A[b][i] |-> RMul(A[b][i][j], B[b][i][j])]]]

SetDiagonal(t, v) ==
    [b \in DOMAIN t |->
        [i \in DOMAIN t[b] |->
            [j \in DOMAIN t[b][i] |-> IF i = j THEN v ELSE t[b][i][j]]]]

matern_gen_fn_single_patch(d, nu, bessel) ==
    LET K0 == IF d.rank = 3 THEN SetDiagonal(d.data, One) ELSE d.data
        tmp == MapTensor(Scaled(nu), d.rank, K0)
        const_val == Rat(1, Pow2(nu - 1) * Factorial(nu - 1))
        K1 == IF d.rank \in {2, 3}
              THEN MapTensor([x \in EntryValues |-> const_val], d.rank, K0)
              ELSE K0
        K2 == Multiply(d.rank, K1, MapTensor(Powers(nu), d.rank, tmp))
    IN  Ok(Multiply(d.rank, K2, MapTensor(bessel, d.rank, K0)))

matern_gen_fn(d, nu, bessel) ==
    LET K0 == IF d.rank = 3 THEN SetDiagonal(d.data, One) ELSE d.data
        tmp == MapTensor(Scaled(nu), d.rank, K0)
        const_val == Rat(1, Pow2(nu - 1) * Factorial(nu - 1))
        K1 == IF d.rank \in {2, 3}
              THEN MapTensor([x \in EntryValues |-> const_val], d.rank, K0)
              ELSE K0
        K2 == Multiply(d.rank, K1, MapTensor(Powers(nu), d.rank, tmp))
        K3 == Multiply(d.rank, K2, MapTensor(bessel, d.rank, K0))
    IN  Ok(IF d.rank = 3 THEN SetDiagonal(K3, One) ELSE K3)

(***************************************************************************)
(* What the caller's distance tensor holds after the call.  K = dists      *)
(* gives the argument a second name; K.at[...].set(...) builds a new array *)
(* and K *= ... on an immutable array binds K to the product, so no        *)
(* statement writes into the argument.                                     *)
(***************************************************************************)
matern_gen_fn_argument_patched_in_place(d, nu) ==
    IF d.rank = 3 THEN [d EXCEPT !.data = SetDiagonal(d.data, One)] ELSE d

matern_gen_fn_argument(d, nu) == d

BesselOutcomes == {NaN, <<1, 0>>, Zero, Rat(1, 2), One}

DistanceTensors ==
    { [rank |-> 3,
       data |-> [b \in Range0(BatchCount) |->
                    [i \in Range0(NNCount) |->
                        [j \in Range0(NNCount) |->
                            IF i = j THEN Rat(g, 1)
                            ELSE Rat((x + y * b + i + j) % (MaxDist + 1), 1)]]]] :
      g \in 0 .. MaxDist, x \in 0 .. MaxDist, y \in 0 .. 1 }
    \cup
    { [rank |-> 2,
       data |-> [b \in Range0(BatchCount) |->
                    [i \in Range0(NNCount) |->
                        Rat((x + y * b + w * i) % (MaxDist + 1), 1)]]] :
      x \in 0 .. MaxDist, y \in 0 .. 1, w \in 0 .. 1 }
    \cup
    { [rank |-> 1,
       data |-> [i \in Range0(NNCount) |-> Rat((x + w * i) % (MaxDist + 1), 1)]] :
      x \in 0 .. MaxDist, w \in 0 .. 1 }

InitKernel ==
    /\ train_features = NoTensor
    /\ train_targets = NoTensor
    /\ test_features = NoTensor
    /\ K = NoTensor
    /\ Kcross = NoTensor
    /\ batch_nn_targets = NoTensor
    /\ coeffs_tensor = NoTensor
    /\ dists \in DistanceTensors
    /\ call = [op |-> "none"]
    /\ ret = Ok(NoTensor)

MaternGen ==
    /\ Idle
    /\ \E nu \in 1 .. MaxNu, bessel \in [EntryValues -> BesselOutcomes] :
           /\ call' = [op |-> "matern_gen_fn", nu |-> nu, bessel |-> bessel]
           /\ ret' = matern_gen_fn(dists, nu, bessel)
           /\ dists' = matern_gen_fn_argument(dists, nu)
           /\ UNCHANGED <<train_features, train_targets, test_features,
                          K, Kcross, batch_nn_targets, coeffs_tensor>>

NextKernel ==
    \/ MaternGen
    \/ Return

SpecKernel == InitKernel /\ [][NextKernel]_vars

(***************************************************************************)
(* All core operations together: a caller holds the inputs of one of the   *)
(* three groups and makes any sequence of calls on them.                   *)
(***************************************************************************)
InitCore == InitDist \/ InitSolve \/ InitKernel

NextCore ==
    \/ train_features # NoTensor /\ NextDist
    \/ K # NoTensor /\ NextSolve
    \/ dists # NoTensor /\ NextKernel

SpecCore == InitCore /\ [][NextCore]_vars

(***************************************************************************)
(* Batch sampling.  The neighbor lookup is a table with the neighbor row   *)
(* of every training index; get_batch_nns returns the rows of the indices  *)
(* it is given.  np.random.choice(a, size, replace=False) returns any      *)
(* arrangement of size distinct elements of a: the outcome is an input of  *)
(* the sampling function.                                                  *)
(***************************************************************************)
get_batch_nns(nbrs_lookup, indices) == Gather1(nbrs_lookup, indices)

Arange(n) == [t \in Range0(n) |-> t]

RandomChoices(population, size) ==
    { s \in [Range0(size) -> population] :
        \A i, j \in Range0(size) : s[i] = s[j] => i = j }

Min(m, n) == IF m < n THEN m ELSE n

RowMax(row) == CHOOSE v \in { row[j] : j \in DOMAIN row } :
                   \A j \in DOMAIN row : row[j] <= v

RowMin(row) == CHOOSE v \in { row[j] : j \in DOMAIN row } :
                   \A j \in DOMAIN row : v <= row[j]

nonconstant_mask(nbrs_lookup, labels) ==
    LET nn_indices == get_batch_nns(nbrs_lookup, Arange(Len0(labels)))
        nn_labels == Gather2(labels, nn_indices)
    IN  Materialize([t \in DOMAIN nn_labels |->
                        RowMax(nn_labels[t]) # RowMin(nn_labels[t])])

Unique(labels) == AscendingVector({ labels[t] : t \in DOMAIN labels })

nonconstant_indices(nbrs_lookup, labels) ==
    LET mask == nonconstant_mask(nbrs_lookup, labels)
        classes == Unique(labels)
    IN  Materialize([c \in DOMAIN classes |->
            AscendingVector({ t \in DOMAIN labels :
                                mask[t] /\ labels[t] = classes[c] })])

batch_sizes(nbrs_lookup, labels, batch_size) ==
    LET candidates == nonconstant_indices(nbrs_lookup, labels)
        class_count == Len0(Unique(labels))
        each_batch_size == batch_size \div class_count
    IN  Materialize([c \in DOMAIN candidates |->
                        Min(Len0(candidates[c]), each_batch_size)])

RECURSIVE ConcatenateTo(_, _)
ConcatenateTo(parts, n) ==
    IF n = 0 THEN <<>>
    ELSE LET head == ConcatenateTo(parts, n - 1)
             tail == parts[n - 1]
         IN  Materialize([i \in Range0(Len0(head) + Len0(tail)) |->
                             IF i < Len0(head) THEN head[i]
                             ELSE tail[i - Len0(head)]])

Concatenate(parts) == ConcatenateTo(parts, Len0(parts))

full_filtered_batch_unfiltered(nbrs_lookup, labels) ==
    LET indices == Arange(Len0(labels))
    IN  Ok([batch_indices |-> indices,
            batch_nn_indices |-> get_batch_nns(nbrs_lookup, indices)])

full_filtered_batch(nbrs_lookup, labels) ==
    LET indices == Arange(Len0(labels))
        nn_indices == get_batch_nns(nbrs_lookup, indices)
        mask == nonconstant_mask(nbrs_lookup, labels)
        batch_indices == AscendingVector({ t \in DOMAIN indices : mask[t] })
    IN  Ok([batch_indices |-> batch_indices,
            batch_nn_indices |-> Gather1(nn_indices, batch_indices)])

sample_balanced_batch_whole_classes(nbrs_lookup, labels, batch_size, choices) ==
    LET nn_indices == get_batch_nns(nbrs_lookup, Arange(Len0(labels)))
        balanced == Concatenate(nonconstant_indices(nbrs_lookup, labels))
    IN  Ok([batch_indices |-> balanced,
            batch_nn_indices |-> Gather1(nn_indices, balanced)])

sample_balanced_batch(nbrs_lookup, labels, batch_size, choices) ==
    LET nn_indices == get_batch_nns(nbrs_lookup, Arange(Len0(labels)))
        nonconstant_balanced_indices == Concatenate(choices)
    IN  Ok([batch_indices |-> nonconstant_balanced_indices,
            batch_nn_indices |-> Gather1(nn_indices, nonconstant_balanced_indices)])

(***************************************************************************)
(* The outcomes of the random choices of sample_balanced_batch: one        *)
(* arrangement per class, of batch_sizes[c] of the class's candidates.     *)
(***************************************************************************)
RECURSIVE ChoicesTo(_, _, _)
ChoicesTo(candidates, sizes, n) ==
    IF n = 0 THEN {<<>>}
    ELSE { Materialize([c \in Range0(n) |-> IF c = n - 1 THEN last ELSE rest[c]]) :
             rest \in ChoicesTo(candidates, sizes, n - 1),
             last \in RandomChoices({ candidates[n - 1][i] :
                                        i \in DOMAIN candidates[n - 1] },
                                    sizes[n - 1]) }

BalancedChoices(nbrs_lookup, labels, batch_size) ==
    LET candidates == nonconstant_indices(nbrs_lookup, labels)
    IN  ChoicesTo(candidates, batch_sizes(nbrs_lookup, labels, batch_size),
                  Len0(candidates))

get_balanced_batch(nbrs_lookup, labels, batch_size, choices) ==
    IF Len0(labels) > batch_size
    THEN sample_balanced_batch(nbrs_lookup, labels, batch_size, choices)
    ELSE full_filtered_batch(nbrs_lookup, labels)

sample_batch_with_replacement(nbrs_lookup, batch_count, train_count, choice) ==
    LET batch_indices ==
            IF train_count > batch_count
            THEN [r \in Range0(batch_count) |-> choice[0]]
            ELSE Arange(train_count)
    IN  Ok([batch_indices |-> batch_indices,
            batch_nn_indices |-> get_batch_nns(nbrs_lookup, batch_indices)])

sample_batch(nbrs_lookup, batch_count, train_count, choice) ==
    LET batch_indices ==
            IF train_count > batch_count THEN choice ELSE Arange(train_count)
    IN  Ok([batch_indices |-> batch_indices,
            batch_nn_indices |-> get_batch_nns(nbrs_lookup, batch_indices)])

(***************************************************************************)
(* Inputs of the samplers: a neighbor table with one row per training      *)
(* point, and labels affine in the training index.                         *)
(***************************************************************************)
NeighborTables == IndexTensors(TrainCount)

LabelVectors ==
    { [t \in Range0(TrainCount) |-> (a * t + c) % (MaxLabel + 1)] :
      a \in 0 .. MaxLabel, c \in 0 .. MaxLabel }

InitBatch ==
    /\ train_features = NoTensor
    /\ train_targets = NoTensor
    /\ test_features = NoTensor
    /\ K = NoTensor
    /\ Kcross = NoTensor
    /\ batch_nn_targets = NoTensor
    /\ coeffs_tensor = NoTensor
    /\ dists = NoTensor
    /\ call = [op |-> "none"]
    /\ ret = Ok(NoTensor)

SampleBatch ==
    /\ Idle
    /\ \E nbrs_lookup \in NeighborTables, batch_count \in 0 .. (TrainCount + 1),
          train_count \in 0 .. TrainCount :
         \E choice \in IF train_count > batch_count
                        THEN RandomChoices(Range0(train_count), batch_count)
                        ELSE {<<>>} :
           /\ call' = [op |-> "sample_batch", nbrs_lookup |-> nbrs_lookup,
                       batch_count |-> batch_count, train_count |-> train_count]
           /\ ret' = sample_batch(nbrs_lookup, batch_count, train_count, choice)
           /\ DataUnchanged

SampleBalancedBatch ==
    /\ Idle
    /\ \E nbrs_lookup \in NeighborTables, labels \in LabelVectors,
          batch_size \in 0 .. (TrainCount + 1) :
         \E choices \in BalancedChoices(nbrs_lookup, labels, batch_size) :
           /\ call' = [op |-> "sample_balanced_batch", nbrs_lookup |-> nbrs_lookup,
                       labels |-> labels, batch_size |-> batch_size]
           /\ ret' = sample_balanced_batch(nbrs_lookup, labels, batch_size, choices)
           /\ DataUnchanged

FullFilteredBatch ==
    /\ Idle
    /\ \E nbrs_lookup \in NeighborTables, labels \in LabelVectors :
           /\ call' = [op |-> "full_filtered_batch", nbrs_lookup |-> nbrs_lookup,
                       labels |-> labels]
           /\ ret' = full_filtered_batch(nbrs_lookup, labels)
           /\ DataUnchanged

GetBalancedBatch ==
    /\ Idle
    /\ \E nbrs_lookup \in NeighborTables, labels \in LabelVectors,
          batch_size \in 0 .. (TrainCount + 1) :
         \E choices \in BalancedChoices(nbrs_lookup, labels, batch_size) :
           /\ call' = [op |-> "get_balanced_batch", nbrs_lookup |-> nbrs_lookup,
                       labels |-> labels, batch_size |-> batch_size]
           /\ ret' = get_balanced_batch(nbrs_lookup, labels, batch_size, choices)
           /\ DataUnchanged

NextBatch ==
    \/ SampleBatch
    \/ SampleBalancedBatch
    \/ FullFilteredBatch
    \/ GetBalancedBatch
    \/ Return

SpecBatch == InitBatch /\ [][NextBatch]_vars

(***************************************************************************)
(* Embedding a distortion model into a kernel function.  A plain function  *)
(* is known by its name and returns the record of what it was called with; *)
(* a distortion model has a type and maps a difference to a distorted      *)
(* difference; the function apply_distortion builds keeps the function and *)
(* the distortion it closes over.                                          *)
(***************************************************************************)
Distort(distortion_fn, first_arg) ==
    (first_arg + distortion_fn.shift) % (MaxDiff + 1)

RECURSIVE CallFn(_, _, _, _)
CallFn(fn, first_arg, args, kwargs) ==
    IF fn.kind = "distorted_fn"
    THEN CallFn(fn.fn, Distort(fn.distortion_fn, first_arg), args, kwargs)
    ELSE [called |-> fn.name, diffs |-> first_arg, args |-> args,
          kwargs |-> kwargs]

apply_distortion(distortion_fn, fn) ==
    [kind |-> "distorted_fn", fn |-> fn, distortion_fn |-> distortion_fn]

embed_with_distortion_model_wraps_null(fn, distortion_fn) ==
    IF distortion_fn.type \in {"IsotropicDistortion", "NullDistortion"}
    THEN Ok(apply_distortion(distortion_fn, fn))
    ELSE Raise("ValueError",
               <<"Noise model ", distortion_fn.type, " is not supported!">>)

embed_with_distortion_model(fn, distortion_fn) ==
    IF distortion_fn.type = "IsotropicDistortion"
    THEN Ok(apply_distortion(distortion_fn, fn))
    ELSE IF distortion_fn.type = "NullDistortion"
    THEN Ok(fn)
    ELSE Raise("ValueError",
               <<"Noise model ", distortion_fn.type, " is not supported!">>)

DistortionTypes ==
    {"IsotropicDistortion", "NullDistortion", "AnisotropicDistortion", "function"}

Fns == { [kind |-> "fn", name |-> n] : n \in 1 .. FnCount }

Distortions ==
    { [type |-> t, shift |-> s] : t \in DistortionTypes, s \in 1 .. MaxDiff }

PositionalArgs == { [i \in 1 .. n |-> i] : n \in 0 .. MaxArg }

KeywordArgs == { <<>>, [nu |-> 1] }

EmbedWithDistortionModel ==
    /\ Idle
    /\ \E fn \in Fns, distortion_fn \in Distortions :
           /\ call' = [op |-> "embed_with_distortion_model", fn |-> fn,
                       distortion_fn |-> distortion_fn]
           /\ ret' = embed_with_distortion_model(fn, distortion_fn)
           /\ DataUnchanged

(***************************************************************************)
(* The caller calls the function it was handed.                            *)
(***************************************************************************)
CallEmbedded ==
    \E first_arg \in 0 .. MaxDiff, args \in PositionalArgs,
       kwargs \in KeywordArgs :
        /\ call.op = "embed_with_distortion_model"
        /\ ret.ok
        /\ call' = [op |-> "embedded_fn", fn |-> call.fn,
                    distortion_fn |-> call.distortion_fn, embedded |-> ret.val,
                    diffs |-> first_arg, args |-> args, kwargs |-> kwargs]
        /\ ret' = Ok(CallFn(ret.val, first_arg, args, kwargs))
        /\ DataUnchanged

NextEmbed ==
    \/ EmbedWithDistortionModel
    \/ CallEmbedded
    \/ Return

InitEmbed == InitBatch

SpecEmbed == InitEmbed /\ [][NextEmbed]_vars

(***************************************************************************)
(* Shapes, and the squared Euclidean distance of two feature vectors.      *)
(***************************************************************************)
IsShape2(t, n0, n1) ==
    /\ DOMAIN t = Range0(n0)
    /\ \A b \in Range0(n0) : DOMAIN t[b] = Range0(n1)

IsShape3(t, n0, n1, n2) ==
    /\ DOMAIN t = Range0(n0)
    /\ \A b \in Range0(n0) : IsShape2(t[b], n1, n2)

SquaredDistance(x, y) ==
    Sum([f \in Range0(FeatureCount) |-> (x[f] - y[f]) * (x[f] - y[f])])

(***************************************************************************)
(* C1: under "l2", pairwise_distances returns a tensor of shape            *)
(* (batch_count, nn_count, nn_count) that is symmetric along its last two  *)
(* axes and zero on the diagonal.                                          *)
(***************************************************************************)
C1_PairwiseL2Symmetric ==
    (call.op = "pairwise_distances" /\ call.metric = "l2") =>
        /\ ret.ok
        /\ IsShape3(ret.val, Len0(call.nn_indices), NNCount, NNCount)
        /\ \A b \in DOMAIN ret.val : \A i, j \in Range0(NNCount) :
              /\ ret.val[b][i][j] = ret.val[b][j][i]
              /\ ret.val[b][i][i][1] = 0

C1_Witness ==
    /\ call.op = "pairwise_distances"
    /\ call.metric = "l2"
    /\ ret.ok
    /\ \E b \in DOMAIN ret.val : \E i, j \in Range0(NNCount) :
          /\ i # j
          /\ ret.val[b][i][j][1] > SqrtScale
          /\ ret.val[b][i][j] = ret.val[b][j][i]

(***************************************************************************)
(* C2: a metric other than "l2" and "F2" makes pairwise_distances and      *)
(* crosswise_distances raise a ValueError whose message names the metric;  *)
(* no tensor is returned.                                                  *)
(***************************************************************************)
C2_UnsupportedMetricRaises ==
    (/\ call.op \in {"pairwise_distances", "crosswise_distances"}
     /\ call.metric \notin {"l2", "F2"}) =>
        /\ ~ ret.ok
        /\ "val" \notin DOMAIN ret
        /\ ret.err = "ValueError"
        /\ \E k \in DOMAIN ret.msg : ret.msg[k] = call.metric

C2_Witness ==
    /\ call.op = "crosswise_distances"
    /\ call.metric = "cosine"
    /\ ~ ret.ok
    /\ ret.msg = <<"Metric ", "cosine", " is not supported!">>

(***************************************************************************)
(* C3: the fast neighbor update keeps the shape of the index tensor; row t *)
(* of the result starts with t and continues with the first nn_count - 1   *)
(* entries of row t of the input, in their order.                          *)
(***************************************************************************)
C3_FastUpdatePrependsSelf ==
    call.op = "fast_nn_update" =>
        /\ ret.ok
        /\ IsShape2(ret.val, Len0(call.nn_indices), NNCount)
        /\ \A t \in DOMAIN call.nn_indices :
              /\ ret.val[t][0] = t
              /\ \A j \in 1 .. (NNCount - 1) :
                    ret.val[t][j] = call.nn_indices[t][j - 1]

C3_Witness ==
    /\ call.op = "fast_nn_update"
    /\ Len0(call.nn_indices) = TrainCount
    /\ \E t \in DOMAIN call.nn_indices :
          /\ t > 0
          /\ call.nn_indices[t][0] # call.nn_indices[t][1]
          /\ call.nn_indices[t][NNCount - 1] # call.nn_indices[t][NNCount - 2]
          /\ call.nn_indices[t][0] # t
          /\ ret.val[t] = [j \in Range0(NNCount) |->
                              IF j = 0 THEN t ELSE call.nn_indices[t][j - 1]]

(***************************************************************************)
(* C4: given one index row per training point, make_fast_regress_tensors   *)
(* builds its pairwise distances and gathers its targets with exactly the  *)
(* indices fast_nn_update returns for the same tensor.                     *)
(***************************************************************************)
C4_FastTransformConsistent ==
    (/\ call.op = "make_fast_regress_tensors"
     /\ Len0(call.nn_indices) = Len0(train_features)
     /\ call.metric \in {"l2", "F2"}) =>
        /\ ret.ok
        /\ ret.val.indices = fast_nn_update(call.nn_indices)
        /\ ret.val.pairwise_dists =
              pairwise_distances(train_features,
                                 fast_nn_update(call.nn_indices),
                                 call.metric).val
        /\ ret.val.batch_nn_targets =
              Gather2(train_targets, fast_nn_update(call.nn_indices))

C4_Witness ==
    /\ call.op = "make_fast_regress_tensors"
    /\ ret.ok
    /\ ret.val.indices = fast_nn_update(call.nn_indices)
    /\ ret.val.indices # call.nn_indices
    /\ \E t \in DOMAIN call.nn_indices :
          call.nn_indices[t][NNCount - 1] # call.nn_indices[t][0]
    /\ \E b \in DOMAIN ret.val.pairwise_dists :
          ret.val.pairwise_dists[b][0][1] # ret.val.pairwise_dists[b][0][0]

(***************************************************************************)
(* C9: crosswise_distances returns a tensor of shape (batch_count,         *)
(* nn_count); entry [b, i] is the distance, reduced over the feature axis  *)
(* only, between data[data_indices[b]] and                                 *)
(* neighbor_data[neighbor_indices[b, i]]: the sum of the squared feature   *)
(* differences under "F2", its square root under "l2".                     *)
(***************************************************************************)
C9_CrosswiseEntries ==
    (/\ call.op = "crosswise_distances"
     /\ call.metric \in {"l2", "F2"}
     /\ Len0(call.data_indices) = Len0(call.nn_indices)) =>
        /\ ret.ok
        /\ IsShape2(ret.val, Len0(call.nn_indices), NNCount)
        /\ \A b \in DOMAIN call.nn_indices : \A i \in Range0(NNCount) :
              LET sq == SquaredDistance(
                            test_features[call.data_indices[b]],
                            train_features[call.nn_indices[b][i]])
              IN  ret.val[b][i] = IF call.metric = "F2" THEN sq ELSE Sqrt(sq)

C9_Witness ==
    /\ call.op = "crosswise_distances"
    /\ call.metric = "F2"
    /\ ret.ok
    /\ Len0(call.data_indices) = Len0(call.nn_indices)
    /\ call.data_indices[0] # call.data_indices[1]
    /\ test_features[0] # test_features[1]
    /\ train_features[0] # train_features[1]
    /\ \E b \in DOMAIN ret.val : \E i, j \in Range0(NNCount) :
          /\ ret.val[b][i] = FeatureCount
          /\ ret.val[b][j] = 0

(***************************************************************************)
(* Determinants (Laplace expansion along the first row), Cramer's rule,    *)
(* and positive semi-definiteness by principal minors.                     *)
(***************************************************************************)
Minor(M, c) ==
    Materialize([i \in Range0(Len0(M) - 1) |->
                    Materialize([j \in Range0(Len0(M) - 1) |->
                                    M[i + 1][IF j < c THEN j ELSE j + 1]])])

RECURSIVE Det(_)
Det(M) ==
    IF Len0(M) = 0 THEN One
    ELSE IF Len0(M) = 1 THEN M[0][0]
    ELSE RSum([c \in Range0(Len0(M)) |->
                  IF M[0][c] = Zero THEN Zero
                  ELSE RMul(IF c % 2 = 0 THEN One ELSE RNeg(One),
                            RMul(M[0][c], Det(Minor(M, c))))])

ReplaceColumn(M, c, v) ==
    Materialize([i \in DOMAIN M |->
                    Materialize([j \in DOMAIN M[i] |->
                                    IF j = c THEN v[i] ELSE M[i][j]])])

Cramer(M, v) ==
    LET det == Det(M)
    IN  Materialize([j \in DOMAIN M |-> RDiv(Det(ReplaceColumn(M, j, v)), det)])

Principal(M, S) ==
    LET order == Ascending(S)
    IN  Materialize([i \in Range0(Cardinality(S)) |->
                        Materialize([j \in Range0(Cardinality(S)) |->
                                        M[order[i + 1]][order[j + 1]]])])

IsSymmetric(M) == \A i, j \in DOMAIN M : M[i][j] = M[j][i]

IsPSD(M) ==
    /\ IsSymmetric(M)
    /\ \A S \in SUBSET DOMAIN M : RLeq(Zero, Det(Principal(M, S)))

HasUnitDiagonal(M) == \A i \in DOMAIN M : M[i][i] = One

(***************************************************************************)
(* The correlation matrix of the query point (index 0) and its neighbors.  *)
(***************************************************************************)
JointCorrelation(M, v) ==
    Materialize([i \in Range0(Len0(M) + 1) |->
                    Materialize([j \in Range0(Len0(M) + 1) |->
                                    IF i = 0 /\ j = 0 THEN One
                                    ELSE IF i = 0 THEN v[j - 1]
                                    ELSE IF j = 0 THEN v[i - 1]
                                    ELSE M[i - 1][j - 1]])])

Column(T, k) == Materialize([j \in DOMAIN T |-> T[j][k]])

Dot(v, w) == RSum([j \in DOMAIN v |-> RMul(v[j], w[j])])

InUnitInterval(x) == IsFinite(x) /\ RLeq(Zero, x) /\ RLeq(x, One)

AllFinite2(t) == \A b \in DOMAIN t : \A k \in DOMAIN t[b] : IsFinite(t[b][k])

(***************************************************************************)
(* C5: the fast solve applied to the precomputed coefficients gives, for   *)
(* every batch element, the prediction of the direct solve with the same   *)
(* K, Kcross and targets: the one is finite exactly when the other is, and *)
(* then they are equal.                                                    *)
(***************************************************************************)
C5_FastEqualsDirect ==
    call.op = "fast_regress_solve" =>
        LET direct == muygps_compute_solve(K, Kcross, batch_nn_targets).val
        IN  /\ ret.ok
            /\ DOMAIN ret.val = DOMAIN direct
            /\ \A b \in DOMAIN direct :
                  /\ DOMAIN ret.val[b] = DOMAIN direct[b]
                  /\ \A k \in DOMAIN direct[b] :
                        /\ IsFinite(ret.val[b][k]) <=> IsFinite(direct[b][k])
                        /\ IsFinite(direct[b][k]) => ret.val[b][k] = direct[b][k]

C5_Witness ==
    /\ call.op = "fast_regress_solve"
    /\ \A b \in DOMAIN K : Det(K[b]) # Zero /\ ~ IsSymmetric(K[b])
    /\ K[0] # K[1]
    /\ AllFinite2(ret.val)
    /\ ret.val[0][0] # Zero
    /\ ret.val = muygps_compute_solve(K, Kcross, batch_nn_targets).val

(***************************************************************************)
(* C6: solve returns a tensor of shape (batch_count, response_count); row  *)
(* b is Kcross[b] . x_b, where x_b solves K[b] x = neighbor_targets[b]     *)
(* (K[b] nonsingular), whatever the other batch elements are.              *)
(***************************************************************************)
C6_SolvePerBatchElement ==
    call.op = "solve" =>
        /\ ret.ok
        /\ IsShape2(ret.val, BatchCount, ResponseCount)
        /\ \A b \in Range0(BatchCount) :
              Det(K[b]) # Zero =>
                  \A k \in Range0(ResponseCount) :
                      ret.val[b][k] =
                          Dot(Kcross[b],
                              Cramer(K[b], Column(batch_nn_targets[b], k)))

C6_Witness ==
    /\ call.op = "solve"
    /\ \A b \in DOMAIN K : Det(K[b]) # Zero
    /\ K[0] # K[1]
    /\ K[0][0][0] = Zero
    /\ AllFinite2(ret.val)
    /\ ret.val[0] # ret.val[1]

(***************************************************************************)
(* C7, as stated: for a PSD correlation matrix K[b] with unit diagonal and *)
(* valid cross-correlations Kcross[b] (the joint correlation matrix of the *)
(* query point and its neighbors is PSD), diagonal_variance returns a      *)
(* value in [0, 1].  A singular PSD K[b] refutes it.                       *)
(***************************************************************************)
ValidCorrelations(b) ==
    /\ HasUnitDiagonal(K[b])
    /\ IsPSD(K[b])
    /\ IsPSD(JointCorrelation(K[b], Kcross[b]))

C7_Original ==
    call.op = "diagonal_variance" =>
        \A b \in Range0(BatchCount) :
            ValidCorrelations(b) => InUnitInterval(ret.val[b])

(***************************************************************************)
(* C7, amended: diagonal_variance returns one scalar per batch element;    *)
(* for a positive definite correlation matrix K[b] with unit diagonal and  *)
(* valid cross-correlations it is 1 - Kcross[b] . K[b]^-1 . Kcross[b] and  *)
(* lies in [0, 1].                                                         *)
(***************************************************************************)
C7_VarianceInUnitInterval ==
    call.op = "diagonal_variance" =>
        /\ ret.ok
        /\ DOMAIN ret.val = Range0(BatchCount)
        /\ \A b \in Range0(BatchCount) :
              (ValidCorrelations(b) /\ Det(K[b]) # Zero) =>
                  /\ ret.val[b] =
                        RSub(One, Dot(Kcross[b], Cramer(K[b], Kcross[b])))
                  /\ InUnitInterval(ret.val[b])

C7_Witness ==
    /\ call.op = "diagonal_variance"
    /\ \A b \in Range0(BatchCount) :
          /\ ValidCorrelations(b)
          /\ Det(K[b]) # Zero
          /\ RLess(Zero, ret.val[b])
          /\ RLess(ret.val[b], One)
    /\ K[0] # K[1]

(***************************************************************************)
(* C10: the fast solve returns a tensor of shape (batch_count,             *)
(* response_count) with out[i, k] the sum over j of                        *)
(* Kcross[i, j] * coeff[i, j, k], computed from Kcross and the coefficient *)
(* tensor alone; the coefficient tensor has shape (train_count, nn_count,  *)
(* response_count).                                                        *)
(***************************************************************************)
C10_FastSolveContraction ==
    call.op = "fast_regress_solve" =>
        /\ ret.ok
        /\ IsShape3(coeffs_tensor, Len0(K), NNCount, ResponseCount)
        /\ IsShape2(ret.val, Len0(Kcross), ResponseCount)
        /\ \A i \in Range0(BatchCount) : \A k \in Range0(ResponseCount) :
              ret.val[i][k] =
                  RSumTo([j \in Range0(NNCount) |->
                             RMul(coeffs_tensor[i][j][k], Kcross[i][j])],
                         NNCount)

C10_Witness ==
    /\ call.op = "fast_regress_solve"
    /\ AllFinite2(ret.val)
    /\ coeffs_tensor[0] # coeffs_tensor[1]
    /\ \E j \in Range0(NNCount) : Kcross[0][j] # Kcross[1][j]
    /\ ret.val[0] # ret.val[1]
    /\ ret.val[1][0] # Zero

(***************************************************************************)
(* C8: for a distance tensor of rank 3 and every smoothness, every entry   *)
(* [b, i, i] of the general Matern kernel's result is exactly 1, whatever  *)
(* the Bessel evaluation produced there.                                   *)
(***************************************************************************)
C8_MaternDiagonalIsOne ==
    (call.op = "matern_gen_fn" /\ dists.rank = 3) =>
        /\ ret.ok
        /\ IsShape3(ret.val, BatchCount, NNCount, NNCount)
        /\ \A b \in Range0(BatchCount) : \A i \in Range0(NNCount) :
              ret.val[b][i][i] = One

C8_Witness ==
    /\ call.op = "matern_gen_fn"
    /\ dists.rank = 3
    /\ dists.data[0][0][0] = Zero
    /\ call.bessel[One] = NaN
    /\ \E b \in Range0(BatchCount) : \E i, j \in Range0(NNCount) :
          /\ i # j
          /\ ~ IsFinite(ret.val[b][i][j])
          /\ ret.val[b][i][i] = One

(***************************************************************************)
(* C11, as stated: the multi-model fast prediction is the contraction of   *)
(* Kcross with the coefficient tensor summed over the neighbor axis and    *)
(* the output axis jointly.                                                *)
(***************************************************************************)
JointContraction(Kcrossin, coeffs, i) ==
    RSum([k \in Range0(ResponseCount) |->
             RSumTo([j \in Range0(NNCount) |->
                        RMul(Kcrossin[i][j][k], coeffs[i][j][k])], NNCount)])

C11_Original ==
    call.op = "mmuygps_fast_regress_solve" =>
        \A i \in DOMAIN ret.val : \A k \in DOMAIN ret.val[i] :
            ret.val[i][k] = JointContraction(call.Kcross, coeffs_tensor, i)

(***************************************************************************)
(* C11, amended: the multi-model fast solve returns a tensor of shape      *)
(* (batch_count, response_count) with out[i, k] the sum over the neighbor  *)
(* axis j alone of Kcross[i, j, k] * coeff[i, j, k]: the output axis is    *)
(* kept, every output dimension using its own cross-covariances.           *)
(***************************************************************************)
C11_MultiSolvePerOutput ==
    call.op = "mmuygps_fast_regress_solve" =>
        /\ ret.ok
        /\ IsShape2(ret.val, BatchCount, ResponseCount)
        /\ \A i \in Range0(BatchCount) : \A k \in Range0(ResponseCount) :
              ret.val[i][k] =
                  RSumTo([j \in Range0(NNCount) |->
                             RMul(call.Kcross[i][j][k], coeffs_tensor[i][j][k])],
                         NNCount)

C11_Witness ==
    /\ call.op = "mmuygps_fast_regress_solve"
    /\ AllFinite2(ret.val)
    /\ \E j \in Range0(NNCount) : call.Kcross[0][j][0] # call.Kcross[0][j][1]
    /\ ret.val[0][0] # ret.val[0][1]
    /\ ret.val[0][0] # JointContraction(call.Kcross, coeffs_tensor, 0)

(***************************************************************************)
(* C12, as stated: a call of crosswise_distances whose number of query     *)
(* indices differs from its number of neighbor-index rows fails with an    *)
(* error.  A single query index refutes it: it is broadcast against every  *)
(* row of neighbor indices and a tensor is returned.                       *)
(***************************************************************************)
C12_Original ==
    (/\ call.op = "crosswise_distances"
     /\ call.metric \in {"l2", "F2"}
     /\ Len0(call.data_indices) # Len0(call.nn_indices)) => ~ ret.ok

(***************************************************************************)
(* The mismatches that do fail: both counts above one and different.       *)
(***************************************************************************)
C12_MismatchAboveOneRaises ==
    (/\ call.op = "crosswise_distances"
     /\ call.metric \in {"l2", "F2"}
     /\ Len0(call.data_indices) # Len0(call.nn_indices)) =>
        IF Len0(call.data_indices) = 1 \/ Len0(call.nn_indices) = 1
        THEN /\ ret.ok
             /\ IsShape2(ret.val,
                         Max(Len0(call.data_indices), Len0(call.nn_indices)),
                         NNCount)
        ELSE ~ ret.ok /\ ret.err = "TypeError"

C12_Witness ==
    /\ call.op = "crosswise_distances"
    /\ call.metric = "F2"
    /\ Len0(call.data_indices) = 1
    /\ Len0(call.nn_indices) = BatchCount
    /\ ret.ok
    /\ ret.val[0] # ret.val[1]

NeighborPermutations ==
    { p \in [Range0(NNCount) -> Range0(NNCount)] :
        \A i, j \in Range0(NNCount) : p[i] = p[j] => i = j }

PermuteRows(nn_indices, elements, p) ==
    [b \in DOMAIN nn_indices |->
        IF b \in elements THEN [i \in Range0(NNCount) |-> nn_indices[b][p[i]]]
        ELSE nn_indices[b]]

PermutedElements(p) == { b \in Range0(BatchCount) : b % 2 = p[0] % 2 }

C14_NeighborPermutation ==
    (call.op = "make_regress_tensors" /\ call.metric \in {"l2", "F2"}) =>
        /\ ret.ok
        /\ \A p \in NeighborPermutations : \A elements \in {PermutedElements(p)} :
              LET permuted ==
                      make_regress_tensors(
                          call.metric, call.batch_indices,
                          PermuteRows(call.nn_indices, elements, p), call.test,
                          train_features, train_targets)
                  At(b, i) == IF b \in elements THEN p[i] ELSE i
              IN  /\ permuted.ok
                  /\ \A b \in Range0(BatchCount) : \A i \in Range0(NNCount) :
                        /\ permuted.val.crosswise_dists[b][i] =
                              ret.val.crosswise_dists[b][At(b, i)]
                        /\ permuted.val.batch_nn_targets[b][i] =
                              ret.val.batch_nn_targets[b][At(b, i)]
                        /\ \A j \in Range0(NNCount) :
                              permuted.val.pairwise_dists[b][i][j] =
                                  ret.val.pairwise_dists[b][At(b, i)][At(b, j)]

C14_Witness ==
    /\ call.op = "make_regress_tensors"
    /\ call.metric = "l2"
    /\ ret.ok
    /\ \A i, j \in Range0(NNCount) :
          i # j => /\ call.nn_indices[0][i] # call.nn_indices[0][j]
                   /\ ret.val.batch_nn_targets[0][i] # ret.val.batch_nn_targets[0][j]
    /\ ret.val.crosswise_dists[0][0] # ret.val.crosswise_dists[0][1]
    /\ ret.val.pairwise_dists[0][0][1] # ret.val.pairwise_dists[0][0][2]
    /\ call.nn_indices[0][0] > call.nn_indices[0][1]

(***************************************************************************)
(* C18: make_train_tensors returns the crosswise distances, pairwise       *)
(* distances and neighbor targets of make_regress_tensors called with the  *)
(* training features as query and neighbor data, together with             *)
(* batch_targets[b] = train_targets[batch_indices[b]];                     *)
(* batch_nn_targets[b, i] = train_targets[batch_nn_indices[b, i]]; and     *)
(* make_regress_tensors given no test features measures the crosswise      *)
(* distances from the training features.                                   *)
(***************************************************************************)
C18_TrainTensors ==
    /\ (call.op = "make_train_tensors" /\ call.metric \in {"l2", "F2"}) =>
           LET regress ==
                   make_regress_tensors(call.metric, call.batch_indices,
                                        call.nn_indices, Some(train_features),
                                        train_features, train_targets)
           IN  /\ ret.ok /\ regress.ok
               /\ DOMAIN ret.val = {"crosswise_dists", "pairwise_dists",
                                    "batch_targets", "batch_nn_targets"}
               /\ ret.val.crosswise_dists = regress.val.crosswise_dists
               /\ ret.val.pairwise_dists = regress.val.pairwise_dists
               /\ ret.val.batch_nn_targets = regress.val.batch_nn_targets
               /\ \A b \in Range0(BatchCount) :
                     /\ ret.val.batch_targets[b] =
                           train_targets[call.batch_indices[b]]
                     /\ \A i \in Range0(NNCount) :
                           /\ ret.val.batch_nn_targets[b][i] =
                                 train_targets[call.nn_indices[b][i]]
                           /\ ret.val.crosswise_dists[b][i] =
                                 LET sq == SquaredDistance(
                                               train_features[call.batch_indices[b]],
                                               train_features[call.nn_indices[b][i]])
                                 IN  IF call.metric = "F2" THEN sq ELSE Sqrt(sq)
    /\ (/\ call.op = "make_regress_tensors"
        /\ call.metric \in {"l2", "F2"}
        /\ call.test.is_none) =>
           /\ ret.ok
           /\ \A b \in Range0(BatchCount) : \A i \in Range0(NNCount) :
                 ret.val.crosswise_dists[b][i] =
                     LET sq == SquaredDistance(
                                   train_features[call.batch_indices[b]],
                                   train_features[call.nn_indices[b][i]])
                     IN  IF call.metric = "F2" THEN sq ELSE Sqrt(sq)

C18_Witness ==
    /\ call.op = "make_train_tensors"
    /\ call.metric = "F2"
    /\ ret.ok
    /\ ret.val.batch_targets[0] # ret.val.batch_targets[1]
    /\ ret.val.batch_nn_targets[0] # ret.val.batch_nn_targets[1]
    /\ ret.val.crosswise_dists #
          crosswise_distances(test_features, train_features, call.batch_indices,
                              call.nn_indices, call.metric).val
    /\ \E i \in Range0(NNCount) : ret.val.crosswise_dists[0][i] > 0

(***************************************************************************)
(* C20: with train_count the number of rows of the index tensor, the fast  *)
(* neighbor update maps indices in [0, train_count) to indices in          *)
(* [0, train_count); its output row t has no repeated index exactly when   *)
(* the first nn_count - 1 entries of input row t are pairwise distinct and *)
(* do not contain t; and a repeated index in an augmented row gives the    *)
(* row's pairwise distance matrix an off-diagonal zero.                    *)
(***************************************************************************)
NoRepeat(row, n) == \A i, j \in Range0(n) : row[i] = row[j] => i = j

C20_FastUpdateValidity ==
    /\ call.op = "fast_nn_update" =>
           LET train_count == Len0(call.nn_indices)
           IN  /\ (\A t \in Range0(train_count) : \A j \in Range0(NNCount) :
                       call.nn_indices[t][j] \in Range0(train_count))
                   => (\A t \in Range0(train_count) : \A j \in Range0(NNCount) :
                          ret.val[t][j] \in Range0(train_count))
               /\ \A t \in Range0(train_count) :
                     NoRepeat(ret.val[t], NNCount) <=>
                         /\ NoRepeat(call.nn_indices[t], NNCount - 1)
                         /\ \A j \in Range0(NNCount - 1) : call.nn_indices[t][j] # t
    /\ (call.op = "make_fast_regress_tensors" /\ ret.ok) =>
           \A t \in DOMAIN ret.val.indices : \A i, j \in Range0(NNCount) :
               (i # j /\ ret.val.indices[t][i] = ret.val.indices[t][j]) =>
                   ret.val.pairwise_dists[t][i][j] =
                       IF call.metric = "F2" THEN 0 ELSE Sqrt(0)

C20_Witness ==
    /\ call.op = "fast_nn_update"
    /\ Len0(call.nn_indices) = TrainCount
    /\ \E t \in DOMAIN ret.val : NoRepeat(ret.val[t], NNCount)
    /\ \E t \in DOMAIN ret.val :
          /\ ~ NoRepeat(ret.val[t], NNCount)
          /\ NoRepeat(call.nn_indices[t], NNCount)

(***************************************************************************)
(* C15: sample_batch returns pairwise distinct batch indices in            *)
(* [0, train_count): batch_count of them when train_count > batch_count,   *)
(* otherwise 0 .. train_count - 1 in ascending order; row r of the         *)
(* neighbor tensor is the lookup's row of batch index r.                   *)
(***************************************************************************)
IsVector(v) == DOMAIN v = Range0(Len0(v))

C15_SampleBatch ==
    call.op = "sample_batch" =>
        /\ ret.ok
        /\ LET indices == ret.val.batch_indices
               nn_rows == ret.val.batch_nn_indices
           IN  /\ IsVector(indices)
               /\ \A r \in DOMAIN indices : indices[r] \in Range0(call.train_count)
               /\ \A r, q \in DOMAIN indices : indices[r] = indices[q] => r = q
               /\ IF call.train_count > call.batch_count
                  THEN Len0(indices) = call.batch_count
                  ELSE /\ Len0(indices) = call.train_count
                       /\ \A r \in DOMAIN indices : indices[r] = r
               /\ DOMAIN nn_rows = DOMAIN indices
               /\ \A r \in DOMAIN indices :
                     nn_rows[r] = call.nbrs_lookup[indices[r]]

C15_Witness ==
    /\ call.op = "sample_batch"
    /\ call.train_count = TrainCount
    /\ call.batch_count = TrainCount - 1
    /\ ret.val.batch_indices[0] > ret.val.batch_indices[1]
    /\ ret.val.batch_nn_indices[0] # ret.val.batch_nn_indices[1]
    /\ ret.val.batch_nn_indices[0] # call.nbrs_lookup[0]

(***************************************************************************)
(* C16: sample_balanced_batch returns only indices whose neighbors' labels *)
(* are not all equal, none twice; from each class it takes exactly         *)
(* min(number of such indices in the class, floor(batch_size /             *)
(* class_count)), so that the batch has at most batch_size elements; row r *)
(* of the neighbor tensor is the neighbor row of returned index r.         *)
(***************************************************************************)
HasMixedNeighbors(nbrs_lookup, labels, t) ==
    \E i, j \in DOMAIN nbrs_lookup[t] :
        labels[nbrs_lookup[t][i]] # labels[nbrs_lookup[t][j]]

Classes(labels) == { labels[t] : t \in DOMAIN labels }

MixedOfClass(nbrs_lookup, labels, v) ==
    { t \in DOMAIN labels :
        labels[t] = v /\ HasMixedNeighbors(nbrs_lookup, labels, t) }

C16_BalancedBatch ==
    call.op = "sample_balanced_batch" =>
        /\ ret.ok
        /\ LET indices == ret.val.batch_indices
               nn_rows == ret.val.batch_nn_indices
               each == call.batch_size \div Cardinality(Classes(call.labels))
           IN  /\ IsVector(indices)
               /\ \A r \in DOMAIN indices :
                     /\ indices[r] \in DOMAIN call.labels
                     /\ HasMixedNeighbors(call.nbrs_lookup, call.labels, indices[r])
               /\ \A r, q \in DOMAIN indices : indices[r] = indices[q] => r = q
               /\ \A v \in Classes(call.labels) :
                     Cardinality({ r \in DOMAIN indices :
                                     call.labels[indices[r]] = v }) =
                         Min(Cardinality(MixedOfClass(call.nbrs_lookup,
                                                      call.labels, v)),
                             each)
               /\ Len0(indices) <= call.batch_size
               /\ DOMAIN nn_rows = DOMAIN indices
               /\ \A r \in DOMAIN indices :
                     nn_rows[r] = call.nbrs_lookup[indices[r]]

C16_Witness ==
    /\ call.op = "sample_balanced_batch"
    /\ Cardinality(Classes(call.labels)) = 2
    /\ Len0(ret.val.batch_indices) = 2
    /\ call.labels[ret.val.batch_indices[0]] # call.labels[ret.val.batch_indices[1]]
    /\ \E v \in Classes(call.labels) :
          Cardinality(MixedOfClass(call.nbrs_lookup, call.labels, v)) >
              call.batch_size \div 2
    /\ call.batch_size = 3

(***************************************************************************)
(* C17: full_filtered_batch returns, in ascending order and each once,     *)
(* exactly the training indices whose neighbor labels are not all of one   *)
(* class, with those indices' neighbor rows in the same order;             *)
(* get_balanced_batch returns this result when len(labels) <= batch_size   *)
(* and a sampled balanced batch otherwise.                                 *)
(***************************************************************************)
IsFullFilteredBatch(result, nbrs_lookup, labels) ==
    LET indices == result.batch_indices
        nn_rows == result.batch_nn_indices
    IN  /\ IsVector(indices)
        /\ \A r, q \in DOMAIN indices : r < q => indices[r] < indices[q]
        /\ { indices[r] : r \in DOMAIN indices } =
              { t \in DOMAIN labels : HasMixedNeighbors(nbrs_lookup, labels, t) }
        /\ DOMAIN nn_rows = DOMAIN indices
        /\ \A r \in DOMAIN indices : nn_rows[r] = nbrs_lookup[indices[r]]

C17_FullFilteredBatch ==
    /\ call.op = "full_filtered_batch" =>
           ret.ok /\ IsFullFilteredBatch(ret.val, call.nbrs_lookup, call.labels)
    /\ call.op = "get_balanced_batch" =>
           /\ ret.ok
           /\ IF Len0(call.labels) <= call.batch_size
              THEN IsFullFilteredBatch(ret.val, call.nbrs_lookup, call.labels)
              ELSE \E choices \in BalancedChoices(call.nbrs_lookup, call.labels,
                                                  call.batch_size) :
                       ret = sample_balanced_batch(call.nbrs_lookup, call.labels,
                                                   call.batch_size, choices)

C17_Witness ==
    /\ call.op = "full_filtered_batch"
    /\ Len0(ret.val.batch_indices) = TrainCount - 1
    /\ ret.val.batch_indices[0] # 0
    /\ ret.val.batch_nn_indices[0] # ret.val.batch_nn_indices[1]

(***************************************************************************)
(* C19: for an IsotropicDistortion, embed_with_distortion_model returns a  *)
(* function that applies the distortion to its first argument only and     *)
(* passes the result and all other positional and keyword arguments        *)
(* unchanged to fn; for a NullDistortion it returns fn itself; for any     *)
(* other type it raises a ValueError naming the type.                      *)
(***************************************************************************)
C19_EmbedDistortion ==
    /\ call.op = "embed_with_distortion_model" =>
           IF call.distortion_fn.type = "IsotropicDistortion"
           THEN ret.ok /\ ret.val # call.fn
           ELSE IF call.distortion_fn.type = "NullDistortion"
           THEN ret.ok /\ ret.val = call.fn
           ELSE /\ ~ ret.ok
                /\ ret.err = "ValueError"
                /\ \E i \in DOMAIN ret.msg : ret.msg[i] = call.distortion_fn.type
    /\ call.op = "embedded_fn" =>
           /\ ret.ok
           /\ ret.val.called = call.fn.name
           /\ ret.val.args = call.args
           /\ ret.val.kwargs = call.kwargs
           /\ ret.val.diffs =
                 IF call.distortion_fn.type = "IsotropicDistortion"
                 THEN (call.diffs + call.distortion_fn.shift) % (MaxDiff + 1)
                 ELSE call.diffs

C19_Witness ==
    /\ call.op = "embedded_fn"
    /\ call.distortion_fn.type = "IsotropicDistortion"
    /\ Len(call.args) = MaxArg
    /\ call.kwargs # <<>>
    /\ ret.val.diffs # call.diffs
    /\ ret.val.args = call.args

====
